---- MODULE Spec2Model ----
(***************************************************************************)
(* A model of cnk3x/gormx: the named-instance cache built by SingleWrap    *)
(* (single.go) and the batched sort update of SortPrep / SortExec / Sort.  *)
(*                                                                         *)
(* Spec      the cache under concurrent callers (every interleaving)       *)
(* LiveSpec  the same with weak fairness of every started call's steps     *)
(* SortSpec  SortPrep / SortExec over bounded tables and mappings          *)
(***************************************************************************)
EXTENDS Integers, Naturals, Sequences, FiniteSets, TLC

\* ------------------------------------------------------------------ bounds

\* number of calls of the wrapped function made during one execution
NCalls == 3
\* at most this many calls are in progress at the same time
MaxActive == 2
\* keys of table rows and of sort mappings are 1..MaxKey
MaxKey == 3
\* sort values are 0..MaxSort
MaxSort == 1

\* ------------------------------------------------------- named instance cache

DEFAULT == "DEFAULT"

\* the names callers pass to the wrapped function
Args == {"", DEFAULT, "B"}

Calls == 1..NCalls
\* the instances the injected constructor may hand out; two are enough to tell
\* "the same instance" from "another instance"
Vals == {"d1", "d2"}
NoCall == 0
\* the zero value of T, returned beside an error
Zero == "zero"
Nil == "nil"
ErrGet == "error"
\* what the injected constructor may return: (v, nil) or (zero, err)
GetResults == [val : Vals, err : {Nil}] \cup {[val |-> Zero, err |-> ErrGet]}
NoResult == [val |-> Zero, err |-> Nil]

VARIABLES
    pc,       \* pc[c]: where call c stands in the wrapped function
    arg,      \* arg[c]: the name call c was given
    ins,      \* the cache: a function from names to instances
    readers,  \* mu: number of read locks held
    writer,   \* mu: the call that holds (or is acquiring) the write lock, or NoCall
    sfm,      \* sfg: key -> the call whose construction is in flight for it
    fres,     \* fres[c]: what the function c ran inside sfg.Do returned
    fdone,    \* fdone[c]: c's flight is over (wg.Done, key deleted)
    joined,   \* joined[c]: the flight c waits on as a duplicate, or NoCall
    led,      \* led[c]: c invoked the constructor
    out,      \* out[c]: what the call returned
    prior,    \* prior[c]: the calls that had returned when c started
    getArgs,  \* the names the constructor was invoked with
    \* ---- ordered batch updater
    phase,    \* "input": nothing was called yet; "executed": the update ran
    table,    \* the table's rows, records [id, sort] with unique ids
    before,   \* the table as it was when the updater was called
    values,   \* the mapping key -> sort value handed to the updater
    tx,       \* the handle the update runs on: scoped by Model(&ZZ{}) or by Table(..)
    where,    \* the filter SortPrep built
    value,    \* the value expression SortPrep built
    rowsAffected,
    dbError

cacheVars == <<pc, arg, ins, readers, writer, sfm, fres, fdone, joined, led, out,
               prior, getArgs>>
sortVars == <<phase, table, before, values, tx, where, value, rowsAffected, dbError>>
vars == <<cacheVars, sortVars>>

\* name = DEFAULT when name == ""
NormalizeForgotten(a) == a
Normalize(a) == IF a = "" THEN DEFAULT ELSE a

Name(c) == Normalize(arg[c])

\* ins[name] = v
CacheStoreSkipped(cache, n, v) == cache
CacheStore(cache, n, v) == [x \in DOMAIN cache \cup {n} |-> IF x = n THEN v ELSE cache[x]]

\* the key a call enters the single-flight group with
FlightKeyShared(n) == "*"
FlightKey(n) == n

\* mu.RUnlock() on the miss path
RUnlockMissForgotten(r) == r
RUnlockMiss(r) == r - 1

\* mu.RUnlock() on the hit path
RUnlockHit(r) == r - 1

\* the instances handed out so far
Used == {fres[c].val : c \in Calls} \ {Zero}
\* what a constructor returning now may return: an error, an instance it handed
\* out before, or a new one; instances are opaque, so the first new one is "d1"
GetOutcomes ==
    {r \in GetResults : r.err # Nil \/ r.val \in Used \/ r.val = "d1" \/ "d1" \in Used}

CacheInit ==
    /\ pc = [c \in Calls |-> "idle"]
    /\ arg = [c \in Calls |-> ""]
    /\ ins = <<>>
    /\ readers = 0
    /\ writer = NoCall
    /\ sfm = <<>>
    /\ fres = [c \in Calls |-> NoResult]
    /\ fdone = [c \in Calls |-> FALSE]
    /\ joined = [c \in Calls |-> NoCall]
    /\ led = [c \in Calls |-> FALSE]
    /\ out = [c \in Calls |-> NoResult]
    /\ prior = [c \in Calls |-> {}]
    /\ getArgs = {}

\* a caller invokes the wrapped function with name a; calls are numbered in the
\* order they start
Start(c, a) ==
    /\ pc[c] = "idle"
    /\ \A d \in Calls : d < c => pc[d] # "idle"
    /\ Cardinality({d \in Calls : pc[d] \notin {"idle", "done"}}) < MaxActive
    /\ arg' = [arg EXCEPT ![c] = a]
    /\ prior' = [prior EXCEPT ![c] = {d \in Calls : pc[d] = "done"}]
    /\ pc' = [pc EXCEPT ![c] = "rlock"]
    /\ UNCHANGED <<ins, readers, writer, sfm, fres, fdone, joined, led, out, getArgs>>

\* mu.RLock(): blocks while a writer holds or is acquiring the lock
RLock(c) ==
    /\ pc[c] = "rlock"
    /\ writer = NoCall
    /\ readers' = readers + 1
    /\ pc' = [pc EXCEPT ![c] = "read"]
    /\ UNCHANGED <<arg, ins, writer, sfm, fres, fdone, joined, led, out, prior, getArgs>>

\* instance, ok := ins[name]; hit: RUnlock and return it; miss: RUnlock, go on
Read(c) ==
    /\ pc[c] = "read"
    /\ IF Name(c) \in DOMAIN ins
         THEN /\ readers' = RUnlockHit(readers)
              /\ out' = [out EXCEPT ![c] = [val |-> ins[Name(c)], err |-> Nil]]
              /\ pc' = [pc EXCEPT ![c] = "done"]
         ELSE /\ readers' = RUnlockMiss(readers)
              /\ pc' = [pc EXCEPT ![c] = "do"]
              /\ out' = out
    /\ UNCHANGED <<arg, ins, writer, sfm, fres, fdone, joined, led, prior, getArgs>>

\* sfg.Do(name, fn): a call already in flight for the key is joined (and waited
\* for); otherwise the call registers itself and runs fn, which invokes get(name)
DoEnter(c) ==
    /\ pc[c] = "do"
    /\ IF FlightKey(Name(c)) \in DOMAIN sfm
         THEN /\ joined' = [joined EXCEPT ![c] = sfm[FlightKey(Name(c))]]
              /\ pc' = [pc EXCEPT ![c] = "wait"]
              /\ UNCHANGED <<sfm, led, getArgs>>
         ELSE /\ sfm' = [k \in DOMAIN sfm \cup {FlightKey(Name(c))} |->
                           IF k = FlightKey(Name(c)) THEN c ELSE sfm[k]]
              /\ led' = [led EXCEPT ![c] = TRUE]
              /\ getArgs' = getArgs \cup {Name(c)}
              /\ pc' = [pc EXCEPT ![c] = "get"]
              /\ joined' = joined
    /\ UNCHANGED <<arg, ins, readers, writer, fres, fdone, out, prior>>

\* v, err := get(name) returns: on an error fn returns (nil, err), otherwise it
\* goes on to store v
GetReturn(c, r) ==
    /\ pc[c] = "get"
    /\ fres' = [fres EXCEPT ![c] = r]
    /\ pc' = [pc EXCEPT ![c] = IF r.err # Nil THEN "release" ELSE "lock"]
    /\ UNCHANGED <<arg, ins, readers, writer, sfm, fdone, joined, led, out, prior, getArgs>>

\* mu.Lock(), first half: the writer excludes other writers and new readers
LockBegin(c) ==
    /\ pc[c] = "lock"
    /\ writer = NoCall
    /\ writer' = c
    /\ pc' = [pc EXCEPT ![c] = "lockwait"]
    /\ UNCHANGED <<arg, ins, readers, sfm, fres, fdone, joined, led, out, prior, getArgs>>

\* mu.Lock(), second half: the writer waits for the active readers to leave
LockAcquire(c) ==
    /\ pc[c] = "lockwait"
    /\ readers = 0
    /\ pc' = [pc EXCEPT ![c] = "write"]
    /\ UNCHANGED <<arg, ins, readers, writer, sfm, fres, fdone, joined, led, out, prior,
                   getArgs>>

\* ins[name] = v; mu.Unlock(); fn returns (v, nil)
Write(c) ==
    /\ pc[c] = "write"
    /\ ins' = CacheStore(ins, Name(c), fres[c].val)
    /\ writer' = NoCall
    /\ pc' = [pc EXCEPT ![c] = "release"]
    /\ UNCHANGED <<arg, readers, sfm, fres, fdone, joined, led, out, prior, getArgs>>

\* sfg.Do ends for the call that ran fn: wg.Done(), the key is deleted, and the
\* wrapped function returns fn's result (the zero value beside an error)
Release(c) ==
    /\ pc[c] = "release"
    /\ fdone' = [fdone EXCEPT ![c] = TRUE]
    /\ sfm' = [k \in {x \in DOMAIN sfm : sfm[x] # c} |-> sfm[k]]
    /\ out' = [out EXCEPT ![c] = fres[c]]
    /\ pc' = [pc EXCEPT ![c] = "done"]
    /\ UNCHANGED <<arg, ins, readers, writer, fres, joined, led, prior, getArgs>>

\* sfg.Do ends for a duplicate: c.wg.Wait() returns once the flight is over, with
\* the flight's result
Wake(c) ==
    /\ pc[c] = "wait"
    /\ fdone[joined[c]]
    /\ out' = [out EXCEPT ![c] = fres[joined[c]]]
    /\ pc' = [pc EXCEPT ![c] = "done"]
    /\ UNCHANGED <<arg, ins, readers, writer, sfm, fres, fdone, joined, led, prior, getArgs>>

\* the steps of a started call
Step(c) ==
    \/ RLock(c)
    \/ Read(c)
    \/ DoEnter(c)
    \/ \E r \in GetOutcomes : GetReturn(c, r)
    \/ LockBegin(c)
    \/ LockAcquire(c)
    \/ Write(c)
    \/ Release(c)
    \/ Wake(c)

\* ------------------------------------------------------- ordered batch updater

Keys == 1..MaxKey
SortVals == 0..MaxSort

\* clause.CurrentTable and clause.PrimaryKey
CurrentTable == "~~~ct~~~"
PrimaryKey == "~~~py~~~"
ErrSyntax == "syntax error"

\* column(name) for a plain column name: no alias, no table prefix, nothing to trim
column(n) == [Table |-> CurrentTable, Name |-> n]

\* SortExec's defaults: the key column is the model's primary key, or "id" when
\* the handle has no model; the sort column is "sort"
KeyColumn(h, keyColumn) ==
    IF column(keyColumn).Name = ""
      THEN [column(keyColumn) EXCEPT !.Name = IF h = "model" THEN PrimaryKey ELSE "id"]
      ELSE column(keyColumn)
SortColumn(sortColumn) ==
    IF column(sortColumn).Name = ""
      THEN [column(sortColumn) EXCEPT !.Name = "sort"]
      ELSE column(sortColumn)

RECURSIVE SortedKeys(_)
\* the mapping's keys in ascending order (slices.Sort)
SortedKeys(S) ==
    IF S = {} THEN <<>>
    ELSE LET k == CHOOSE x \in S : \A y \in S : x <= y
         IN <<k>> \o SortedKeys(S \ {k})

RECURSIVE WhenSql(_)
\* one " WHEN ? THEN ?" per key
WhenSql(n) == IF n = 0 THEN <<>> ELSE <<" WHEN ? THEN ?">> \o WhenSql(n - 1)

\* the text of the CASE expression
CaseSql(keys) == <<"(CASE ?">> \o WhenSql(Len(keys)) \o <<" ELSE ? END)">>

RECURSIVE WhenArgsKeyAsValue(_, _)
WhenArgsKeyAsValue(vals, keys) ==
    IF keys = <<>> THEN <<>>
    ELSE <<Head(keys), Head(keys)>> \o WhenArgsKeyAsValue(vals, Tail(keys))

RECURSIVE WhenArgs(_, _)
\* caseArg = append(caseArg, key, values[key]) for each key in order
WhenArgs(vals, keys) ==
    IF keys = <<>> THEN <<>>
    ELSE <<Head(keys), vals[Head(keys)]>> \o WhenArgs(vals, Tail(keys))

\* SortPrep: where = gorm.Expr(`? in (?)`, kc, keys)
SortPrepWhere(vals, kc, sc) ==
    [SQL |-> "? in (?)", Vars |-> <<kc, SortedKeys(DOMAIN vals)>>]

\* SortPrep: value = gorm.Expr(caseSql.String(), caseArg...)
SortPrepValue(vals, kc, sc) ==
    [SQL |-> CaseSql(SortedKeys(DOMAIN vals)),
     Vars |-> <<kc>> \o WhenArgs(vals, SortedKeys(DOMAIN vals)) \o <<sc>>]

\* ---- what the database does with the statement
\*      UPDATE <table> SET <sc.Name> = <value> WHERE <where>

\* the row's column a clause.Column names; the primary key of ZZ is id
ColumnOf(row, col) == row[IF col.Name = PrimaryKey THEN "id" ELSE col.Name]

Elems(seq) == {seq[i] : i \in 1..Len(seq)}

\* `? in (?)`: a list with no element is written (NULL) and matches no row
Matches(row, w) == ColumnOf(row, w.Vars[1]) \in Elems(w.Vars[2])

\* the number of WHEN branches of the CASE expression
WhenCount(v) == Len(v.SQL) - 2

\* CASE needs at least one WHEN branch: without one the statement does not parse
WellFormed(v) == WhenCount(v) >= 1

\* CASE x WHEN k1 THEN v1 ... ELSE e END, for one row
EvalCase(row, v) ==
    LET x == ColumnOf(row, v.Vars[1])
        hits == {i \in 1..WhenCount(v) : v.Vars[2 * i] = x}
    IN IF hits = {}
         THEN ColumnOf(row, v.Vars[Len(v.Vars)])
         ELSE v.Vars[2 * (CHOOSE i \in hits : \A j \in hits : i <= j) + 1]

\* the rows after the update
Updated(rows, name, w, v) ==
    {IF Matches(r, w) THEN [r EXCEPT ![name] = EvalCase(r, v)] ELSE r : r \in rows}

Tables ==
    UNION {{{[id |-> k, sort |-> f[k]] : k \in S} : f \in [S -> SortVals]} : S \in SUBSET Keys}
Mappings == UNION {[S -> SortVals] : S \in SUBSET Keys}

SortInit ==
    /\ phase = "input"
    /\ table \in Tables
    /\ before = table
    /\ values \in Mappings
    /\ tx \in {"model", "table"}
    /\ where = [SQL |-> "", Vars |-> <<>>]
    /\ value = [SQL |-> <<>>, Vars |-> <<>>]
    /\ rowsAffected = 0
    /\ dbError = Nil

\* SortExec(tx, values, keyColumn, sortColumn):
\* tx.Where(where).UpdateColumn(sc.Name, value), with where and value from SortPrep
SortExec(keyColumn, sortColumn) ==
    /\ phase = "input"
    /\ LET kc == KeyColumn(tx, keyColumn)
           sc == SortColumn(sortColumn)
           w == SortPrepWhere(values, kc, sc)
           v == SortPrepValue(values, kc, sc)
       IN /\ where' = w
          /\ value' = v
          /\ IF WellFormed(v)
               THEN /\ table' = Updated(table, sc.Name, w, v)
                    /\ rowsAffected' = Cardinality({r \in table : Matches(r, w)})
                    /\ dbError' = Nil
               ELSE /\ table' = table
                    /\ rowsAffected' = 0
                    /\ dbError' = ErrSyntax
    /\ phase' = "executed"
    /\ UNCHANGED <<before, values, tx>>

\* Sort(tx, values): SortExec(tx, values, "", ""), then tx.RowsAffected and tx.Error
Sort == SortExec("", "")

SortNext ==
    \/ \E k \in {"", "id"}, s \in {"", "sort"} : SortExec(k, s) /\ UNCHANGED cacheVars
    \/ Sort /\ UNCHANGED cacheVars

\* the updater is called on a table while the cache is untouched
SortSpecInit == CacheInit /\ SortInit

SortSpec == SortSpecInit /\ [][SortNext]_vars

\* the batch updater is not running
SortIdle ==
    /\ phase = "input"
    /\ table = {}
    /\ before = {}
    /\ values = <<>>
    /\ tx = "table"
    /\ where = [SQL |-> "", Vars |-> <<>>]
    /\ value = [SQL |-> <<>>, Vars |-> <<>>]
    /\ rowsAffected = 0
    /\ dbError = Nil

Init == CacheInit /\ SortIdle

Next ==
    \/ \E c \in Calls, a \in Args : Start(c, a) /\ UNCHANGED sortVars
    \/ \E c \in Calls : RLock(c) /\ UNCHANGED sortVars
    \/ \E c \in Calls : Read(c) /\ UNCHANGED sortVars
    \/ \E c \in Calls : DoEnter(c) /\ UNCHANGED sortVars
    \/ \E c \in Calls, r \in GetOutcomes : GetReturn(c, r) /\ UNCHANGED sortVars
    \/ \E c \in Calls : LockBegin(c) /\ UNCHANGED sortVars
    \/ \E c \in Calls : LockAcquire(c) /\ UNCHANGED sortVars
    \/ \E c \in Calls : Write(c) /\ UNCHANGED sortVars
    \/ \E c \in Calls : Release(c) /\ UNCHANGED sortVars
    \/ \E c \in Calls : Wake(c) /\ UNCHANGED sortVars

Spec == Init /\ [][Next]_vars

\* every started call keeps taking steps while it can (the Go scheduler runs
\* every runnable goroutine; the constructor returns)
LiveSpec == Spec /\ \A c \in Calls : WF_vars(Step(c) /\ UNCHANGED sortVars)

\* ------------------------------------------------------- claims on the cache

Started(c) == pc[c] # "idle"
Done(c) == pc[c] = "done"
Ok(c) == Done(c) /\ out[c].err = Nil
\* c returned what it found in the cache
Hit(c) == Done(c) /\ ~led[c] /\ joined[c] = NoCall
\* both were in progress at the same time: neither had returned when the other started
Concurrent(c, d) == Started(c) /\ Started(d) /\ c \notin prior[d] /\ d \notin prior[c]
\* c started after a call for the same name had returned successfully
AfterSuccess(c) == Started(c) /\ \E d \in prior[c] : Name(d) = Name(c) /\ out[d].err = Nil

\* C1 (as claimed): of the callers that concurrently request the same name, not
\* yet in the cache, only one invokes the constructor. Two callers that both
\* invoked it both missed the cache. A second invocation that follows a failed
\* one is left out here (that retry is what C4 describes): the formula only
\* forbids a second construction after the first one succeeded.
C1_ConstructedOnce ==
    \A c, d \in Calls :
        (c # d /\ Concurrent(c, d) /\ Name(c) = Name(d) /\ led[c] /\ led[d])
            => (~fdone[c] \/ fres[c].err # Nil) /\ (~fdone[d] \/ fres[d].err # Nil)

\* C2 (as claimed, its last case): it never happens that two callers that
\* concurrently request the same name return different values.
C2_SameOutcome ==
    \A c, d \in Calls :
        (Concurrent(c, d) /\ Name(c) = Name(d) /\ Ok(c) /\ Ok(d)) => out[c].val = out[d].val

\* where a call that started after a successful return for its name can be
C3_StateInv ==
    \A c \in Calls :
        AfterSuccess(c) =>
            /\ pc[c] \in {"rlock", "read", "done"}
            /\ Name(c) \in DOMAIN ins
            /\ ~led[c]
            /\ joined[c] = NoCall
            /\ Done(c) => out[c].err = Nil
\* what its cache read does
C3_ReadStep ==
    \A c \in Calls :
        (AfterSuccess(c) /\ pc[c] = "read" /\ pc'[c] # "read") =>
            /\ pc'[c] = "done"
            /\ out'[c] = [val |-> ins[Name(c)], err |-> Nil]
            /\ getArgs' = getArgs
            /\ ins' = ins
\* C3: once a call for a name has returned successfully, a call for that name
\* that starts afterwards never enters the single-flight group nor invokes the
\* constructor; it returns, with a nil error, the value it finds stored.
C3_NonInvalidation == [] C3_StateInv /\ [][C3_ReadStep]_vars

C3_Witness == \E c \in Calls : AfterSuccess(c) /\ Hit(c) /\ out[c].val = ins[Name(c)]

\* c is the first call for its name to start after a call whose construction
\* failed had returned, and no other call for the name is in progress while c runs
NextAfterFailure(c) ==
    /\ Started(c)
    /\ \A d \in Calls : (d # c /\ Started(d) /\ Name(d) = Name(c)) => ~Concurrent(c, d)
    /\ \E a \in prior[c] :
        /\ Name(a) = Name(c)
        /\ led[a]
        /\ out[a].err # Nil
        /\ \A d \in Calls : (d < c /\ Name(d) = Name(c) /\ d # a) => a \notin prior[d]
\* C4 (as claimed): after a construction for a name failed and the error was
\* returned, the next call for that name invokes the constructor again (the
\* next call taken in its plainest case, see NextAfterFailure).
C4_RetryAfterFailure == \A c \in Calls : (NextAfterFailure(c) /\ Done(c)) => led[c]

\* C5 (as claimed): an entry of the cache, once present, is never removed and
\* its value never changes.
C5_EntriesPermanent == [][\A n \in DOMAIN ins : n \in DOMAIN ins' /\ ins'[n] = ins[n]]_vars

\* C6: a call is never made to wait for the construction of another name. A call
\* that cannot take a step either waits, as a duplicate, for the flight of its
\* own name, or waits for mu, which is only ever held by calls that can go on
\* (readers about to read, the writer about to store). A call whose constructor
\* is running holds neither mu nor any other name's key, and can always go on.
C6_Isolation ==
    /\ readers = Cardinality({c \in Calls : pc[c] = "read"})
    /\ writer # NoCall => pc[writer] \in {"lockwait", "write"}
    /\ \A c \in Calls : pc[c] \in {"lockwait", "write"} => writer = c
    /\ \A k \in DOMAIN sfm : pc[sfm[k]] \in {"get", "lock", "lockwait", "write", "release"}
                              /\ k = Name(sfm[k])
    /\ \A c \in Calls :
         /\ pc[c] \in {"read", "do", "get", "write", "release"} => ENABLED Step(c)
         /\ (Started(c) /\ ~Done(c) /\ ~ENABLED Step(c)) =>
              \/ /\ pc[c] = "wait"
                 /\ Name(joined[c]) = Name(c)
                 /\ ~fdone[joined[c]]
              \/ /\ pc[c] \in {"rlock", "lock"}
                 /\ writer # NoCall
              \/ /\ pc[c] = "lockwait"
                 /\ readers > 0

\* the constructors of two names run at the same time (and by C6_Isolation each
\* of the two calls can go on to its return whatever the other one does)
C6_Witness ==
    \E c, d \in Calls : pc[c] = "get" /\ pc[d] = "get" /\ Name(c) # Name(d)

NoDeadlock == (\A c \in Calls : pc[c] \in {"idle", "done"}) \/ (\E c \in Calls : ENABLED Step(c))
\* C10: under fair scheduling every call that started returns, and the system
\* never reaches a state where a started call has not returned and nothing can
\* take a step.
C10_EveryCallReturns ==
    /\ [] NoDeadlock
    /\ \A c \in Calls : Started(c) ~> Done(c)

\* every call has returned: one of them as a duplicate, having waited for a flight
C10_Witness ==
    /\ \A c \in Calls : Done(c)
    /\ \E c \in Calls : joined[c] # NoCall /\ led[joined[c]]

\* ------------------------------------------------------- claims on the updater

\* the reference: every row whose key is in the mapping gets the mapped value,
\* every other row is left as it was
Reference(rows, vals) ==
    {IF r.id \in DOMAIN vals THEN [r EXCEPT !.sort = vals[r.id]] ELSE r : r \in rows}

\* C7: for a non-empty mapping, the update leaves the table equal to the
\* reference, reports as rows affected the number of rows whose key is in the
\* mapping, and fails with no error; the filter is the key column in the
\* mapping's keys, and the value is a CASE over the key column, one WHEN per key,
\* with the sort column as ELSE.
C7_BatchUpdate ==
    (phase = "executed" /\ DOMAIN values # {}) =>
        /\ table = Reference(before, values)
        /\ rowsAffected = Cardinality({r \in before : r.id \in DOMAIN values})
        /\ dbError = Nil
        /\ Elems(where.Vars[2]) = DOMAIN values
        /\ where.Vars[1] = value.Vars[1]
        /\ WhenCount(value) = Cardinality(DOMAIN values)
        /\ value.Vars[Len(value.Vars)].Name = "sort"

\* a row in the mapping changed, a row outside it with another sort value stayed
C7_Witness ==
    /\ phase = "executed"
    /\ \E r \in before : r.id \in DOMAIN values /\ r.sort # values[r.id]
    /\ \E r \in before : r.id \notin DOMAIN values /\ r \in table
    /\ \E k \in DOMAIN values : \A r \in before : r.id # k
    /\ Cardinality(DOMAIN values) >= 2

\* C8 (as claimed): with an empty mapping the updater affects no row, returns no
\* error, and hands the database no CASE expression without a WHEN branch.
C8_EmptyMapping ==
    (phase = "executed" /\ DOMAIN values = {}) =>
        /\ rowsAffected = 0
        /\ dbError = Nil
        /\ WhenCount(value) >= 1

====
